---- MODULE Spec2Model ----
(***************************************************************************)
(* A model of the QEMU daemon client driver (src/src/qemu_internal.c):     *)
(* connection establishment with daemon autostart, the blocking            *)
(* request/reply exchange of qemuProcessRequest, and the driver operations *)
(* built on it.  Every system call (socket, connect, write, read) is one   *)
(* step, and its outcome is chosen by the environment.  Sizes are counted  *)
(* in transfer units and scaled down: a header is HeaderSize units, the    *)
(* largest body MaxData units.                                             *)
(*                                                                         *)
(* SpecOpen runs opens and closes on a fresh connection, SpecDrivers adds  *)
(* the network driver's open, and SpecClientUNIX leaves the autostart      *)
(* parameter of qemuOpenClientUNIX open.  Spec runs requests on an open    *)
(* connection against a daemon and a socket that may do anything; SpecLive *)
(* is the same for a few entry points, with fairness; SpecProtocol runs    *)
(* requests against a daemon that follows the protocol; SpecTwoCallers     *)
(* lets a second thread use the connection at the same time.               *)
(***************************************************************************)
EXTENDS Integers, Sequences, FiniteSets, TLC

(* ------------------------------------------------------------------ *)
(* Sizes and bounds                                                    *)
(* ------------------------------------------------------------------ *)

\* number of open and close calls the caller makes on one connection
MaxCalls == 3

\* number of requests the caller makes on one connection
MaxRequests == 1

\* number of requests the caller makes of a daemon that follows the protocol
MaxProtocolRequests == 3

\* number of requests the caller makes where every blocked call is followed up
MaxLiveRequests == 2

\* largest count / id / code the daemon puts in a reply field
MaxVal == 3

\* largest domain id a caller looks up
MaxId == 1

\* largest capacity of a caller supplied array
MaxCap == 2

\* sizeof(struct qemud_packet_header), in transfer units
HeaderSize == 2

\* sizeof(union qemud_packet_data), in transfer units
MaxData == 2

\* capacity of an XML buffer, terminator included
QEMUD_MAX_XML_LEN == 2

\* capacity of a name buffer, terminator included
QEMUD_MAX_NAME_LEN == 2

\* retry limit of qemuOpenClientUNIX
MaxTrials == 3

\* daemon run states as carried by domainGetInfoReply.runstate
QEMUD_STATE_RUNNING == 1
QEMUD_STATE_PAUSED == 2
QEMUD_STATE_STOPPED == 3

\* virDomainState values stored in virDomainInfo.state
VIR_DOMAIN_NOSTATE == 0
VIR_DOMAIN_RUNNING == 1
VIR_DOMAIN_PAUSED == 3
VIR_DOMAIN_SHUTOFF == 5

\* virErrorNumber values
VIR_ERR_OK == 0
VIR_ERR_INTERNAL_ERROR == 1

\* the values a reply field can hold
Vals == 0 .. MaxVal

Min(a, b) == IF a < b THEN a ELSE b

(* ------------------------------------------------------------------ *)
(* State                                                               *)
(* ------------------------------------------------------------------ *)

VARIABLES
    pc,         \* where the calling thread is: "idle" between calls
    op,         \* the driver entry point being run, or last run
    calls,      \* number of entry points the caller has yet to invoke
    arg,        \* integer argument of the running entry point
    ret,        \* integer return value of the last entry point
    retDom,     \* handle returned by the last entry point (valid = FALSE: NULL)
    out,        \* what the entry point stored through its out parameters
    qemud_fd,   \* conn->qemud_fd
    socks,      \* socks[s]: number of close() calls made on socket s
    open,       \* locals and counters of qemuOpen and qemuOpenClientUNIX
    xchg,       \* locals and counters of qemuProcessRequest
    dom,        \* the domain handle the caller holds
    net,        \* the network handle the caller holds
    inbuf,      \* units the daemon sent that the client has not read yet
    peerClosed, \* the daemon closed its end of the socket
    flight,     \* the daemon's reply in flight
    daemon,     \* the daemon's domains, and its log of the requests it served
    other       \* a second thread that calls qemuProcessRequest on the connection

vars == <<pc, op, calls, arg, ret, retDom, out, qemud_fd, socks, open, xchg,
          dom, net, inbuf, peerClosed, flight, daemon, other>>

connVars == <<qemud_fd, socks, open>>
wireVars == <<inbuf, peerClosed, flight, daemon>>
callerVars == <<dom, net, other>>

NullDom == [valid |-> FALSE, id |-> -1, freed |-> 0]

NoOpen == [name |-> "none", path |-> "none", autostart |-> FALSE, trials |-> 0,
           fd |-> -1, fdOnEntry |-> -1, sockets |-> 0, sockFails |-> 0,
           connects |-> 0, connFails |-> 0, spawns |-> 0, spawnFails |-> 0,
           child |-> "none", execExit |-> -1]

NoXchg == [type |-> "none", dataSize |-> 0, outLeft |-> 0, inLeft |-> 0, inGot |-> 0,
           wrote |-> 0, hdrReads |-> 0, bodyReads |-> 0, aligned |-> TRUE,
           gotHdr |-> FALSE, rtype |-> "none", rsize |-> 0, rval |-> 0,
           zeroRead |-> FALSE, rc |-> 0, fail |-> "none",
           err |-> [kind |-> "none", code |-> 0], called |-> FALSE]

NoOut == [slots |-> {}, state |-> -1, used |-> FALSE, frees |-> 0, closed |-> 0]

NoFlight == [owed |-> FALSE, type |-> "none", dataSize |-> 0, val |-> 0, exact |-> FALSE]

NoDaemon == [running |-> {}, nextId |-> 0, log |-> <<>>]

NoOther == [pc |-> "idle", done |-> 0, outLeft |-> 0, inLeft |-> 0, wrote |-> 0,
            owed |-> FALSE, own |-> TRUE, rc |-> 0]

\* the connection as the generic layer hands it to the driver's open
Init ==
    /\ pc = "idle"
    /\ op = "none"
    /\ calls = MaxCalls
    /\ arg = 0
    /\ ret = 0
    /\ retDom = NullDom
    /\ out = NoOut
    /\ qemud_fd = -1
    /\ socks = <<>>
    /\ open = NoOpen
    /\ xchg = NoXchg
    /\ dom = NullDom
    /\ net = NullDom
    /\ inbuf = <<>>
    /\ peerClosed = FALSE
    /\ flight = NoFlight
    /\ daemon = NoDaemon
    /\ other = NoOther

\* the connection after a qemuOpen that connected at its first attempt, with
\* n requests to come and the handles d and nw in the caller's hands
Connected(n, d, nw) ==
    /\ pc = "idle"
    /\ op = "open"
    /\ calls = n
    /\ arg = 0
    /\ ret = 0
    /\ retDom = NullDom
    /\ out = NoOut
    /\ qemud_fd = 1
    /\ socks = <<0>>
    /\ open = [NoOpen EXCEPT !.name = "qemu:///system", !.path = "/run/qemud/sock",
                             !.autostart = TRUE, !.fd = 1, !.sockets = 1,
                             !.connects = 1]
    /\ xchg = NoXchg
    /\ dom = d
    /\ net = nw
    /\ inbuf = <<>>
    /\ peerClosed = FALSE
    /\ flight = NoFlight
    /\ daemon = NoDaemon
    /\ other = NoOther

(* ------------------------------------------------------------------ *)
(* Calls and returns of entry points                                   *)
(* ------------------------------------------------------------------ *)

\* the caller invokes entry point o with integer argument a
Enter(o, a) ==
    /\ pc = "idle"
    /\ calls > 0
    /\ op' = o
    /\ calls' = calls - 1
    /\ arg' = a

\* the entry point returns r to the caller
Leave(r) ==
    /\ pc' = "idle"
    /\ ret' = r

(* ------------------------------------------------------------------ *)
(* Opening and closing the connection                                  *)
(* ------------------------------------------------------------------ *)

\* the connection names a caller may pass; "null" stands for a NULL name
Names == {"null", "::", "xen:///", "qemu:", "qemu://host/system",
          "qemu:///system", "qemu:///session", "qemu:///other"}

\* result of the URI parser on each name (ok = FALSE: the parser returned NULL)
xmlParseURI(name) ==
    CASE name = "xen:///" ->
            [ok |-> TRUE, scheme |-> "xen", server |-> "", path |-> "/"]
      [] name = "qemu:" ->
            [ok |-> TRUE, scheme |-> "qemu", server |-> "", path |-> ""]
      [] name = "qemu://host/system" ->
            [ok |-> TRUE, scheme |-> "qemu", server |-> "host", path |-> "/system"]
      [] name = "qemu:///system" ->
            [ok |-> TRUE, scheme |-> "qemu", server |-> "", path |-> "/system"]
      [] name = "qemu:///session" ->
            [ok |-> TRUE, scheme |-> "qemu", server |-> "", path |-> "/session"]
      [] name = "qemu:///other" ->
            [ok |-> TRUE, scheme |-> "qemu", server |-> "", path |-> "/other"]
      [] OTHER ->
            [ok |-> FALSE, scheme |-> "", server |-> "", path |-> ""]

\* qemuOpen's checks before it touches the connection: TRUE when it goes on
qemuOpenAccepts(name) ==
    /\ name # "null"
    /\ xmlParseURI(name).ok
    /\ xmlParseURI(name).scheme = "qemu"
    /\ xmlParseURI(name).path # ""

\* a path choice that does not look at the server component
qemuOpenConnectionPathMutant(uri, readonly, pwOk) ==
    IF uri.path = "/session"
    THEN (IF pwOk THEN "@home/.qemud/sock" ELSE "none")
    ELSE (IF readonly THEN "/run/qemud/sock-ro" ELSE "/run/qemud/sock")

\* the socket path qemuOpenConnection passes on; "none" when it returns -1
\* itself; "uninit" when neither branch wrote the path buffer
qemuOpenConnectionPath(uri, readonly, pwOk) ==
    IF uri.server # "" THEN "none"
    ELSE IF uri.path = "/system"
         THEN (IF readonly THEN "/run/qemud/sock-ro" ELSE "/run/qemud/sock")
    ELSE IF uri.path = "/session"
         THEN (IF pwOk THEN "@home/.qemud/sock" ELSE "none")
    ELSE "uninit"

\* the autostart argument qemuOpenConnection gives qemuOpenClientUNIX
qemuOpenConnectionAutostart == TRUE

\* the value qemuOpen returns once qemuOpenConnection is back
qemuOpenResult(fd) == IF fd < 0 THEN -1 ELSE 0

\* a retry test that is off by one: it lets a 4th spawn happen
RetryMutant(autostart, trials) == autostart /\ trials <= MaxTrials

\* a retry test that does not look at autostart
RetryAlwaysMutant(autostart, trials) == trials < MaxTrials

\* qemuOpenClientUNIX's test for spawning the daemon after a failed connect
RetryAllowed(autostart, trials) == autostart /\ trials < MaxTrials

\* qemuOpen, from its entry to the first socket() of qemuOpenClientUNIX, which
\* is given autostart; o is the entry point the caller invoked
OpenWithAutostart(o, name, readonly, pwOk, autostart) ==
    /\ Enter(o, 0)
    /\ xchg' = NoXchg
    /\ retDom' = NullDom
    /\ out' = NoOut
    /\ UNCHANGED socks
    /\ UNCHANGED callerVars
    /\ UNCHANGED wireVars
    /\ IF ~qemuOpenAccepts(name)
       THEN /\ Leave(-1)
            /\ open' = [NoOpen EXCEPT !.name = name, !.fdOnEntry = qemud_fd]
            /\ UNCHANGED qemud_fd
       ELSE LET path == qemuOpenConnectionPath(xmlParseURI(name), readonly, pwOk)
            IN /\ qemud_fd' = -1
               /\ open' = [NoOpen EXCEPT !.name = name, !.fdOnEntry = qemud_fd,
                                         !.path = path,
                                         !.autostart = autostart]
               /\ IF path = "none"
                  THEN Leave(qemuOpenResult(-1))
                  ELSE /\ pc' = "socket"
                       /\ UNCHANGED ret

\* qemuOpen(conn, name, flags)
qemuOpen(name, readonly, pwOk) ==
    OpenWithAutostart("open", name, readonly, pwOk, qemuOpenConnectionAutostart)

\* qemuOpenClientUNIX(conn, path, autostart) with either value of its autostart
\* parameter, reached through qemuOpen
qemuOpenClientUNIX(autostart) ==
    OpenWithAutostart("open", "qemu:///system", FALSE, TRUE, autostart)

\* the name qemuNetworkOpen hands to qemuOpen; isRoot: geteuid() == 0
qemuNetworkOpenName(name, isRoot) ==
    IF name # "null" /\ xmlParseURI(name).ok /\ xmlParseURI(name).scheme = "qemu"
    THEN name
    ELSE IF isRoot THEN "qemu:///system" ELSE "qemu:///session"

\* qemuNetworkOpen(conn, name, flags): it returns 0 at once when the connection
\* holds no descriptor, and calls qemuOpen when it holds one
qemuNetworkOpen(name, readonly, pwOk, isRoot) ==
    IF qemud_fd = -1
    THEN /\ Enter("networkOpen", 0)
         /\ Leave(0)
         /\ open' = [NoOpen EXCEPT !.name = name, !.fdOnEntry = qemud_fd]
         /\ xchg' = NoXchg
         /\ retDom' = NullDom
         /\ out' = NoOut
         /\ UNCHANGED <<qemud_fd, socks>>
         /\ UNCHANGED callerVars
         /\ UNCHANGED wireVars
    ELSE OpenWithAutostart("networkOpen", qemuNetworkOpenName(name, isRoot),
                           readonly, pwOk, qemuOpenConnectionAutostart)

\* qemuOpenClientUNIX: fd = socket(PF_UNIX, SOCK_STREAM, 0)
OpenSocket ==
    /\ pc = "socket"
    /\ UNCHANGED <<op, calls, arg, qemud_fd, xchg, retDom, out>>
    /\ UNCHANGED callerVars
    /\ UNCHANGED wireVars
    /\ \/ /\ socks' = Append(socks, 0)
          /\ open' = [open EXCEPT !.fd = Len(socks) + 1, !.sockets = @ + 1]
          /\ pc' = "connect"
          /\ UNCHANGED ret
       \/ /\ open' = [open EXCEPT !.fd = -1, !.sockFails = @ + 1]
          /\ Leave(qemuOpenResult(qemud_fd))
          /\ UNCHANGED socks

\* qemuOpenClientUNIX: connect(fd, ...), and close(fd) when it failed
OpenConnect ==
    /\ pc = "connect"
    /\ UNCHANGED <<op, calls, arg, xchg, retDom, out>>
    /\ UNCHANGED callerVars
    /\ \/ /\ qemud_fd' = open.fd
          /\ open' = [open EXCEPT !.connects = @ + 1]
          /\ Leave(qemuOpenResult(open.fd))
          /\ inbuf' = <<>>
          /\ peerClosed' = FALSE
          /\ flight' = NoFlight
          /\ UNCHANGED daemon
          /\ UNCHANGED socks
       \/ /\ socks' = [socks EXCEPT ![open.fd] = @ + 1]
          /\ open' = [open EXCEPT !.connects = @ + 1, !.connFails = @ + 1]
          /\ UNCHANGED qemud_fd
          /\ UNCHANGED wireVars
          /\ IF RetryAllowed(open.autostart, open.trials)
             THEN /\ pc' = "fork"
                  /\ UNCHANGED ret
             ELSE Leave(qemuOpenResult(qemud_fd))

\* what becomes of the processes qemuForkServer forks: the daemon is exec'ed,
\* the exec fails, the first child fails to set up its descriptors, or a
\* fork() fails
ChildOutcomes == {"exec", "execFailed", "setupFailed", "forkFailed"}

\* the exit status of the process that attempted the exec and failed; -1 when
\* no process did: after the failed execl() it prints a message and falls
\* through to _exit(0)
ExecExit(outcome) == IF outcome = "execFailed" THEN 0 ELSE -1

\* the value qemuForkServer returns once it has forked
qemuForkServerResult(outcome) == 0

\* a caller that does not look at qemuForkServer's result
ForkFailedMutant(rc) == FALSE

\* qemuOpenClientUNIX's test of qemuForkServer's result: TRUE when it gives up
ForkFailed(rc) == rc < 0

\* qemuOpenClientUNIX: qemuForkServer(), then trials++ and usleep()
OpenForkServer ==
    /\ pc = "fork"
    /\ UNCHANGED <<op, calls, arg, qemud_fd, socks, xchg, retDom, out>>
    /\ UNCHANGED callerVars
    /\ UNCHANGED wireVars
    /\ \/ \* the daemon binary was found
          \E outcome \in ChildOutcomes :
             /\ ~ForkFailed(qemuForkServerResult(outcome))
             /\ open' = [open EXCEPT !.spawns = @ + 1, !.trials = @ + 1,
                                     !.child = outcome,
                                     !.execExit = ExecExit(outcome)]
             /\ pc' = "socket"
             /\ UNCHANGED ret
       \/ \* qemuFindServerPath() returned NULL: qemuForkServer() returns -1
          IF ForkFailed(-1)
          THEN /\ open' = [open EXCEPT !.spawns = @ + 1, !.spawnFails = @ + 1,
                                       !.child = "none", !.execExit = -1]
               /\ Leave(qemuOpenResult(qemud_fd))
          ELSE /\ open' = [open EXCEPT !.spawns = @ + 1, !.spawnFails = @ + 1,
                                       !.trials = @ + 1,
                                       !.child = "none", !.execExit = -1]
               /\ pc' = "socket"
               /\ UNCHANGED ret

\* a close that leaves the closed descriptor in conn->qemud_fd
ClosedFdMutant(fd) == fd

\* what qemuClose stores in conn->qemud_fd once it has closed descriptor fd
ClosedFd(fd) == -1

\* qemuClose, as the close entry of the domain driver and of the network driver
qemuClose(driver) ==
    /\ Enter("close", qemud_fd)
    /\ Leave(0)
    /\ xchg' = NoXchg
    /\ retDom' = NullDom
    /\ UNCHANGED open
    /\ UNCHANGED callerVars
    /\ UNCHANGED wireVars
    /\ IF qemud_fd # -1
       THEN /\ socks' = [socks EXCEPT ![qemud_fd] = @ + 1]
            /\ qemud_fd' = ClosedFd(qemud_fd)
            /\ out' = [NoOut EXCEPT !.closed = 1]
       ELSE /\ UNCHANGED <<socks, qemud_fd>>
            /\ out' = NoOut


(* ------------------------------------------------------------------ *)
(* The request/reply exchange: qemuProcessRequest                      *)
(* ------------------------------------------------------------------ *)

\* the entry points that exchange a packet with the daemon
ListOps == {"listDomains", "listDefinedDomains"}
XmlOps == {"domainCreateLinux", "domainDefineXML", "networkCreateXML", "networkDefineXML"}
DomOps == {"destroyDomain", "getDomainInfo", "undefine"}
NetOps == {"networkUndefine"}
InfoOps == {"getVersion", "nodeGetInfo"}
CountOps == {"numOfDomains", "numOfDefinedDomains", "numOfNetworks",
             "numOfDefinedNetworks"}
NetListOps == {"listNetworks", "listDefinedNetworks"}
LookupOps == {"lookupDomainByID", "lookupDomainByUUID", "lookupDomainByName",
              "networkLookupByUUID", "networkLookupByName"}
DomRequestOps == {"pauseDomain", "resumeDomain", "shutdownDomain", "domainCreate",
                  "domainDumpXML"}
NetRequestOps == {"networkCreate", "networkDestroy", "networkDumpXML",
                  "networkGetBridgeName"}
ExchangeOps == ListOps \cup XmlOps \cup DomOps \cup NetOps \cup InfoOps \cup CountOps
               \cup NetListOps \cup LookupOps \cup DomRequestOps \cup NetRequestOps

\* the entry points that never build a request
UnsupportedOps == {"saveDomain", "restoreDomain"}

\* req.header.type set by each entry point
PktType(o) ==
    CASE o = "listDomains" -> "QEMUD_PKT_LIST_DOMAINS"
      [] o = "listDefinedDomains" -> "QEMUD_PKT_LIST_DEFINED_DOMAINS"
      [] o = "domainCreateLinux" -> "QEMUD_PKT_DOMAIN_CREATE"
      [] o = "domainDefineXML" -> "QEMUD_PKT_DOMAIN_DEFINE"
      [] o = "networkCreateXML" -> "QEMUD_PKT_NETWORK_CREATE"
      [] o = "networkDefineXML" -> "QEMUD_PKT_NETWORK_DEFINE"
      [] o = "lookupDomainByID" -> "QEMUD_PKT_DOMAIN_LOOKUP_BY_ID"
      [] o = "destroyDomain" -> "QEMUD_PKT_DOMAIN_DESTROY"
      [] o = "getDomainInfo" -> "QEMUD_PKT_DOMAIN_GET_INFO"
      [] o = "undefine" -> "QEMUD_PKT_DOMAIN_UNDEFINE"
      [] o = "networkUndefine" -> "QEMUD_PKT_NETWORK_UNDEFINE"
      [] o = "getVersion" -> "QEMUD_PKT_GET_VERSION"
      [] o = "nodeGetInfo" -> "QEMUD_PKT_GET_NODEINFO"
      [] o = "numOfDomains" -> "QEMUD_PKT_NUM_DOMAINS"
      [] o = "numOfDefinedDomains" -> "QEMUD_PKT_NUM_DEFINED_DOMAINS"
      [] o = "numOfNetworks" -> "QEMUD_PKT_NUM_NETWORKS"
      [] o = "numOfDefinedNetworks" -> "QEMUD_PKT_NUM_DEFINED_NETWORKS"
      [] o = "listNetworks" -> "QEMUD_PKT_LIST_NETWORKS"
      [] o = "listDefinedNetworks" -> "QEMUD_PKT_LIST_DEFINED_NETWORKS"
      [] o = "lookupDomainByUUID" -> "QEMUD_PKT_DOMAIN_LOOKUP_BY_UUID"
      [] o = "lookupDomainByName" -> "QEMUD_PKT_DOMAIN_LOOKUP_BY_NAME"
      [] o = "networkLookupByUUID" -> "QEMUD_PKT_NETWORK_LOOKUP_BY_UUID"
      [] o = "networkLookupByName" -> "QEMUD_PKT_NETWORK_LOOKUP_BY_NAME"
      [] o = "pauseDomain" -> "QEMUD_PKT_DOMAIN_SUSPEND"
      [] o = "resumeDomain" -> "QEMUD_PKT_DOMAIN_RESUME"
      [] o = "shutdownDomain" -> "QEMUD_PKT_DOMAIN_DESTROY"
      [] o = "domainCreate" -> "QEMUD_PKT_DOMAIN_START"
      [] o = "domainDumpXML" -> "QEMUD_PKT_DUMP_XML"
      [] o = "networkCreate" -> "QEMUD_PKT_NETWORK_START"
      [] o = "networkDestroy" -> "QEMUD_PKT_NETWORK_DESTROY"
      [] o = "networkDumpXML" -> "QEMUD_PKT_NETWORK_DUMP_XML"
      [] o = "networkGetBridgeName" -> "QEMUD_PKT_NETWORK_GET_BRIDGE_NAME"
      [] OTHER -> "none"

\* req.header.dataSize set by each entry point, in transfer units
ReqSize(o) ==
    IF o \in ListOps \cup InfoOps \cup CountOps \cup NetListOps THEN 0
    ELSE IF o \in XmlOps THEN MaxData
    ELSE 1

\* the entry points that read no field of the reply's body
StatusOnlyOps == {"destroyDomain", "shutdownDomain", "pauseDomain", "resumeDomain",
                  "undefine", "networkUndefine", "networkCreate", "networkDestroy"}

\* the units of the reply's body that hold the fields entry point o reads once
\* qemuProcessRequest has returned 0
FieldsRead(o) == IF o \in StatusOnlyOps THEN 0 ELSE 1

\* a message type that is neither t nor the failure type
WrongType(t) ==
    IF t = "QEMUD_PKT_GET_VERSION" THEN "QEMUD_PKT_GET_NODEINFO"
    ELSE "QEMUD_PKT_GET_VERSION"

\* the values a header's type field can hold, as far as a request of type t can tell
HdrTypes(t) == {t, "QEMUD_PKT_FAILURE", WrongType(t)}

\* the values a header's dataSize field can hold
HdrSizes == 0 .. (MaxData + 1)

NoErr == NoXchg.err

\* qemuError: what it raises for an error number and a message
qemuError(error, kind) ==
    IF error = VIR_ERR_OK THEN NoErr ELSE [kind |-> kind, code |-> error]

\* qemuPacketError on a reply of type rtype whose failure code field reads code;
\* isNull: called with a NULL packet
qemuPacketError(isNull, rtype, code) ==
    IF isNull THEN qemuError(VIR_ERR_INTERNAL_ERROR, "Malformed data packet")
    ELSE IF rtype = "QEMUD_PKT_FAILURE" THEN qemuError(code, "failure")
    ELSE qemuError(VIR_ERR_INTERNAL_ERROR, "Incorrect reply type")

\* a header validation that is off by one
HeaderBogusMutant(dataSize) == dataSize > MaxData + 1

\* the header validation of qemuProcessRequest: TRUE when the header is rejected
HeaderBogus(dataSize) == dataSize > MaxData

\* a final test that lets a failure reply through
TypeMismatchMutant(rtype, type) == rtype # type /\ rtype # "QEMUD_PKT_FAILURE"

\* the final test of qemuProcessRequest: TRUE when the reply is refused
TypeMismatch(rtype, type) == rtype # type

\* a test of read()'s result that takes end of file for progress
ReadFailedMutant(done) == done < 0

\* qemuProcessRequest's test of a read()'s result: TRUE when it gives up
ReadFailed(done) == done <= 0

\* an outgoing length that counts one unit beyond the packet
RequestLengthMutant(dataSize) == HeaderSize + dataSize + 1

\* outLeft of qemuProcessRequest at entry: the units it has to write
RequestLength(dataSize) == HeaderSize + dataSize

\* an entry point starts qemuProcessRequest with its request packet; what the
\* socket still holds of earlier replies is stale from now on
StartRequest(o) ==
    /\ pc' = "write"
    /\ xchg' = [NoXchg EXCEPT !.type = PktType(o), !.dataSize = ReqSize(o),
                              !.outLeft = RequestLength(ReqSize(o)),
                              !.inLeft = HeaderSize, !.called = TRUE]
    /\ UNCHANGED inbuf
    /\ flight' = NoFlight
    /\ ret' = 0
    /\ retDom' = NullDom
    /\ out' = NoOut
    /\ UNCHANGED <<peerClosed, daemon>>
    /\ UNCHANGED connVars
    /\ UNCHANGED callerVars

\* qemuProcessRequest leaves with -1 through the exit named by fail
GiveUp(x, fail, err) == [x EXCEPT !.rc = -1, !.fail = fail, !.err = err]

\* the reply is complete: the type test that ends qemuProcessRequest
Complete(x, rval) ==
    IF TypeMismatch(x.rtype, x.type)
    THEN GiveUp([x EXCEPT !.rval = rval], "mismatch",
                qemuPacketError(FALSE, x.rtype, rval))
    ELSE [x EXCEPT !.rval = rval, !.rc = 0]

\* a write loop that stops after its first write() call
WriteDoneMutant(outLeft, got) == TRUE

\* the test of qemuProcessRequest's write loop after a write() of got units:
\* TRUE when nothing is left to send
WriteDone(outLeft, got) == outLeft - got = 0

\* got = write(conn->qemud_fd, out+outDone, outLeft); faults: write may fail
WriteRequest(faults) ==
    /\ pc = "write"
    /\ UNCHANGED <<op, calls, arg, ret, retDom, out, inbuf, peerClosed, daemon>>
    /\ UNCHANGED connVars
    /\ UNCHANGED callerVars
    /\ \/ /\ faults \/ qemud_fd = -1
          /\ xchg' = GiveUp(xchg, "io", NoErr)
          /\ pc' = "return"
          /\ UNCHANGED flight
       \/ /\ qemud_fd # -1
          /\ \E got \in 1 .. xchg.outLeft :
                /\ xchg' = [xchg EXCEPT !.outLeft = @ - got, !.wrote = @ + got]
                /\ pc' = IF WriteDone(xchg.outLeft, got) THEN "hdr" ELSE "write"
                /\ flight' = [flight EXCEPT !.owed = WriteDone(xchg.outLeft, got)]

(* ------------------------------------------------------------------ *)
(* The daemon at the other end of the socket                           *)
(* ------------------------------------------------------------------ *)

\* n units of kind tag
Units(n, tag) == IF n = 0 THEN <<>> ELSE [i \in 1 .. n |-> tag]

\* TRUE when the units u, as read, are all units of kind tag
AllOf(u, tag) == \A i \in 1 .. Len(u) : u[i] = tag

\* the id carried by the request in flight
RequestId == arg

\* the last requests of a log, as many as the daemon remembers
Recent(log) == IF Len(log) > 3 THEN Tail(log) ELSE log

\* the daemon's state once it has served the request in flight, which was about
\* domain id; ok: it accepted
Served(d, id, ok) ==
    [d EXCEPT !.log = Recent(Append(@, [type |-> xchg.type, id |-> id, ok |-> ok]))]

\* the replies a daemon that follows the protocol may give to the request in
\* flight, each with the state the daemon is then in
ProtocolReplies ==
    LET reply(v, id, d) == [type |-> xchg.type, dataSize |-> 1, val |-> v,
                            d |-> Served(d, id, TRUE)]
        ok(v, d) == reply(v, RequestId, d)
        failure == {[type |-> "QEMUD_PKT_FAILURE", dataSize |-> 1,
                     val |-> VIR_ERR_INTERNAL_ERROR,
                     d |-> Served(daemon, RequestId, FALSE)]}
    IN CASE op = "domainCreateLinux" ->
               IF daemon.nextId <= MaxVal
               THEN {reply(daemon.nextId, daemon.nextId,
                           [daemon EXCEPT !.running = @ \cup {daemon.nextId},
                                          !.nextId = @ + 1])}
               ELSE failure
         [] op = "destroyDomain" ->
               IF RequestId \in daemon.running
               THEN {ok(0, [daemon EXCEPT !.running = @ \ {RequestId}])}
               ELSE failure
         [] op = "lookupDomainByID" ->
               IF RequestId \in daemon.running THEN {ok(RequestId, daemon)} ELSE failure
         [] op = "listDomains" -> {ok(Cardinality(daemon.running), daemon)}
         [] op = "getDomainInfo" ->
               {ok(v, daemon) : v \in {QEMUD_STATE_RUNNING, QEMUD_STATE_PAUSED,
                                       QEMUD_STATE_STOPPED}}
         [] OTHER -> {ok(0, daemon)} \cup failure

\* the daemon answers the request as the protocol says, in one whole packet
DaemonReply ==
    /\ pc \in {"hdr", "body"}
    /\ flight.owed
    /\ UNCHANGED <<pc, op, calls, arg, ret, retDom, out, xchg, peerClosed>>
    /\ UNCHANGED connVars
    /\ UNCHANGED callerVars
    /\ \E r \in ProtocolReplies :
          /\ daemon' = r.d
          /\ flight' = [owed |-> FALSE, type |-> r.type, dataSize |-> r.dataSize,
                        val |-> r.val, exact |-> TRUE]
          /\ inbuf' = inbuf \o Units(HeaderSize, "h") \o Units(r.dataSize, "b")

\* the daemon answers with any header at all, delivers the first k units of the
\* packet, and closes the socket when it stops short; once it has closed the
\* socket it sends nothing more
DaemonMisbehave ==
    /\ pc \in {"hdr", "body"}
    /\ flight.owed
    /\ ~peerClosed
    /\ UNCHANGED <<pc, op, calls, arg, ret, retDom, out, xchg, daemon>>
    /\ UNCHANGED connVars
    /\ UNCHANGED callerVars
    /\ \E t \in HdrTypes(xchg.type), n \in HdrSizes :
          \E k \in 0 .. (HeaderSize + n) :
             /\ flight' = [owed |-> FALSE, type |-> t, dataSize |-> n,
                           val |-> 0, exact |-> FALSE]
             /\ inbuf' = inbuf \o Units(Min(k, HeaderSize), "h")
                                \o Units(k - Min(k, HeaderSize), "b")
             /\ peerClosed' = (peerClosed \/ k < HeaderSize + n)


\* a read() call is noted: the note tells whether any was made, not how many
Noted(reads) == IF reads > 0 THEN reads ELSE reads + 1

\* qemuProcessRequest's frame at its return: the cursors into the two buffers
\* are dead; the number of units received stays known of a reply that was
\* accepted
Final(x) == [x EXCEPT !.outLeft = 0, !.inLeft = 0, !.aligned = TRUE,
                      !.inGot = IF x.rc = 0 THEN @ ELSE 0]

\* what the calling thread left in the socket: stale units, but for the units
\* of a reply to the other thread
Stale(rest) == [i \in 1 .. Len(rest) |-> IF rest[i] = "o" THEN "o" ELSE "s"]

\* qemuProcessRequest returns: x is its final state, and the units rest stay
\* in the socket, where they are stale for any later request
Exit(x, rest) ==
    /\ xchg' = Final(x)
    /\ pc' = "return"
    /\ flight' = NoFlight
    /\ inbuf' = Stale(rest)

\* done = read(conn->qemud_fd, in+inGot, inLeft), while the header is read;
\* faults: read may fail
ReadHeader(faults) ==
    /\ pc = "hdr"
    /\ UNCHANGED <<op, calls, arg, ret, retDom, out, peerClosed, daemon>>
    /\ UNCHANGED connVars
    /\ UNCHANGED callerVars
    /\ \/ \* read() returns -1
          /\ faults
          /\ ReadFailed(-1)
          /\ Exit(GiveUp([xchg EXCEPT !.hdrReads = Noted(@)], "io", NoErr), inbuf)
       \/ \* read() returns 0: the peer has closed and nothing is left to read
          /\ inbuf = <<>>
          /\ peerClosed
          /\ ~xchg.zeroRead
          /\ IF ReadFailed(0)
             THEN Exit(GiveUp([xchg EXCEPT !.hdrReads = Noted(@), !.zeroRead = TRUE],
                              "closed", NoErr), inbuf)
             ELSE /\ xchg' = [xchg EXCEPT !.hdrReads = Noted(@), !.zeroRead = TRUE]
                  /\ UNCHANGED <<pc, flight, inbuf>>
       \/ \* read() returns done > 0 units
          \E done \in 1 .. Min(xchg.inLeft, Len(inbuf)) :
             LET units == SubSeq(inbuf, 1, done)
                 rest == SubSeq(inbuf, done + 1, Len(inbuf))
                 aligned == xchg.aligned /\ AllOf(units, "h")
                 x1 == [xchg EXCEPT !.hdrReads = Noted(@), !.inGot = @ + done,
                                    !.inLeft = @ - done, !.aligned = aligned]
             IN IF x1.inLeft > 0
                THEN /\ xchg' = x1
                     /\ inbuf' = rest
                     /\ UNCHANGED <<pc, flight>>
                ELSE \E t \in (IF aligned THEN {flight.type} ELSE HdrTypes(xchg.type)),
                        n \in (IF aligned THEN {flight.dataSize} ELSE HdrSizes) :
                        LET x2 == [x1 EXCEPT !.gotHdr = TRUE, !.rtype = t,
                                             !.rsize = n, !.inLeft = n]
                        IN IF HeaderBogus(n)
                           THEN Exit(GiveUp([x2 EXCEPT !.inLeft = 0], "malformed",
                                            qemuPacketError(TRUE, t, 0)), rest)
                           ELSE IF n = 0
                           THEN \E v \in Vals : Exit(Complete(x2, v), rest)
                           ELSE /\ xchg' = x2
                                /\ inbuf' = rest
                                /\ pc' = "body"
                                /\ UNCHANGED flight

\* done = read(conn->qemud_fd, in+inGot, inLeft), while the body is read
ReadBody(faults) ==
    /\ pc = "body"
    /\ UNCHANGED <<op, calls, arg, ret, retDom, out, peerClosed, daemon>>
    /\ UNCHANGED connVars
    /\ UNCHANGED callerVars
    /\ \/ /\ faults
          /\ ReadFailed(-1)
          /\ Exit(GiveUp([xchg EXCEPT !.bodyReads = Noted(@)], "io", NoErr), inbuf)
       \/ /\ inbuf = <<>>
          /\ peerClosed
          /\ ~xchg.zeroRead
          /\ IF ReadFailed(0)
             THEN Exit(GiveUp([xchg EXCEPT !.bodyReads = Noted(@), !.zeroRead = TRUE],
                              "closed", NoErr), inbuf)
             ELSE /\ xchg' = [xchg EXCEPT !.bodyReads = Noted(@), !.zeroRead = TRUE]
                  /\ UNCHANGED <<pc, flight, inbuf>>
       \/ \E done \in 1 .. Min(xchg.inLeft, Len(inbuf)) :
             LET units == SubSeq(inbuf, 1, done)
                 rest == SubSeq(inbuf, done + 1, Len(inbuf))
                 aligned == xchg.aligned /\ AllOf(units, "b")
                 x1 == [xchg EXCEPT !.bodyReads = Noted(@), !.inGot = @ + done,
                                    !.inLeft = @ - done, !.aligned = aligned]
             IN IF x1.inLeft > 0
                THEN /\ xchg' = x1
                     /\ inbuf' = rest
                     /\ UNCHANGED <<pc, flight>>
                ELSE \E v \in (IF aligned /\ flight.exact THEN {flight.val} ELSE Vals) :
                        Exit(Complete(x1, v), rest)

(* ------------------------------------------------------------------ *)
(* Driver entry points                                                 *)
(* ------------------------------------------------------------------ *)

\* a test of qemuProcessRequest's result that misses -1
RequestFailedMutant(rc) == rc < -1

\* an entry point that does not test qemuProcessRequest's result
RequestNeverFailedMutant(rc) == FALSE

\* the test every entry point makes of qemuProcessRequest's result
RequestFailed(rc) == rc < 0

\* virGetDomain / virGetNetwork: the handle built from a reply
virGetDomain == [valid |-> TRUE, id |-> -1, freed |-> 0]

\* virFreeDomain / virFreeNetwork: the handle after its release
virFreeDomain(h) == [h EXCEPT !.freed = @ + 1]

\* what the caller holds after an entry point gave it handle h: the caller
\* keeps the first handle it gets of each kind
Keep(held, h) == IF held.valid THEN held ELSE h

\* TRUE when the caller holds a handle it may pass to an entry point
Usable(h) == h.valid /\ h.freed = 0

\* an entry point that fails before it builds a request
FailLocally(o, a) ==
    /\ Enter(o, a)
    /\ Leave(-1)
    /\ xchg' = NoXchg
    /\ retDom' = NullDom
    /\ out' = NoOut
    /\ UNCHANGED connVars
    /\ UNCHANGED callerVars
    /\ UNCHANGED wireVars

\* an entry point calls qemuProcessRequest
Request(o, a) ==
    /\ Enter(o, a)
    /\ StartRequest(o)

\* what is left of qemuProcessRequest once its caller has returned too
Summary(x) == [NoXchg EXCEPT !.type = x.type, !.called = x.called, !.wrote = x.wrote,
                             !.gotHdr = x.gotHdr, !.rtype = x.rtype, !.rsize = x.rsize,
                             !.rval = x.rval, !.zeroRead = x.zeroRead, !.rc = x.rc,
                             !.fail = x.fail, !.err = x.err]

\* an entry point that drops the descriptor when its request failed
FdAfterRequestMutant(fd, rc) == IF rc < 0 THEN -1 ELSE fd

\* conn->qemud_fd when an entry point returns after qemuProcessRequest gave rc
FdAfterRequest(fd, rc) == fd

\* the frame of a return step
Returning(o) ==
    /\ pc = "return"
    /\ op = o
    /\ xchg' = Summary(xchg)
    /\ qemud_fd' = FdAfterRequest(qemud_fd, xchg.rc)
    /\ UNCHANGED <<op, calls, arg, socks, open, other>>
    /\ UNCHANGED wireVars

\* a count that is not clamped to the capacity
ListCountMutant(n, max) == n

\* a count that turns into an error beyond the capacity
ListCountRefuseMutant(n, max) == IF n > max THEN -1 ELSE n

\* the number of entries a list entry point copies out
ListCount(n, max) == IF n > max THEN max ELSE n

\* qemuListDomains(conn, ids, maxids)
qemuListDomains(maxids) == Request("listDomains", maxids)

qemuListDomainsReturn ==
    /\ Returning("listDomains")
    /\ UNCHANGED callerVars
    /\ retDom' = NullDom
    /\ IF RequestFailed(xchg.rc)
       THEN /\ Leave(-1)
            /\ out' = NoOut
       ELSE LET nDomains == ListCount(xchg.rval, arg)
            IN /\ out' = [NoOut EXCEPT !.slots = 0 .. (nDomains - 1), !.used = TRUE]
               /\ Leave(nDomains)

\* qemuListDefinedDomains(conn, names, maxnames)
qemuListDefinedDomains(maxnames) == Request("listDefinedDomains", maxnames)

qemuListDefinedDomainsReturn ==
    /\ Returning("listDefinedDomains")
    /\ UNCHANGED callerVars
    /\ retDom' = NullDom
    /\ IF RequestFailed(xchg.rc)
       THEN /\ Leave(-1)
            /\ out' = NoOut
       ELSE LET nDomains == ListCount(xchg.rval, arg)
            IN /\ out' = [NoOut EXCEPT !.slots = 0 .. (nDomains - 1), !.used = TRUE]
               /\ Leave(nDomains)

\* a length test that forgets the terminator
XmlTooLongMutant(len) == len > QEMUD_MAX_XML_LEN

\* the length test of the entry points that send a configuration document
XmlTooLong(len) == len > QEMUD_MAX_XML_LEN - 1

\* the document lengths a caller may pass: the longest accepted, the shortest
\* refused, and one more
XmlLens == (QEMUD_MAX_XML_LEN - 1) .. (QEMUD_MAX_XML_LEN + 1)

\* the return of an entry point that builds a handle from the reply; the
\* handle's id is id when the exchange succeeded
HandleReturn(o, id) ==
    /\ Returning(o)
    /\ IF RequestFailed(xchg.rc)
       THEN /\ Leave(-1)
            /\ retDom' = NullDom
            /\ out' = NoOut
       ELSE /\ Leave(0)
            /\ retDom' = [virGetDomain EXCEPT !.id = id]
            /\ out' = [NoOut EXCEPT !.used = TRUE]

\* qemuDomainCreateLinux(conn, xmlDesc, flags)
qemuDomainCreateLinux(len) ==
    IF XmlTooLong(len)
    THEN FailLocally("domainCreateLinux", len)
    ELSE Request("domainCreateLinux", len)

qemuDomainCreateLinuxReturn ==
    /\ HandleReturn("domainCreateLinux", xchg.rval)
    /\ dom' = Keep(dom, retDom')
    /\ UNCHANGED net

\* qemuDomainDefineXML(conn, xml)
qemuDomainDefineXML(len) ==
    IF XmlTooLong(len)
    THEN FailLocally("domainDefineXML", len)
    ELSE Request("domainDefineXML", len)

qemuDomainDefineXMLReturn ==
    /\ HandleReturn("domainDefineXML", -1)
    /\ dom' = Keep(dom, retDom')
    /\ UNCHANGED net

\* qemuNetworkCreateXML(conn, xmlDesc)
qemuNetworkCreateXML(len) ==
    IF XmlTooLong(len)
    THEN FailLocally("networkCreateXML", len)
    ELSE Request("networkCreateXML", len)

qemuNetworkCreateXMLReturn ==
    /\ HandleReturn("networkCreateXML", -1)
    /\ net' = Keep(net, retDom')
    /\ UNCHANGED dom

\* qemuNetworkDefineXML(conn, xml)
qemuNetworkDefineXML(len) ==
    IF XmlTooLong(len)
    THEN FailLocally("networkDefineXML", len)
    ELSE Request("networkDefineXML", len)

qemuNetworkDefineXMLReturn ==
    /\ HandleReturn("networkDefineXML", -1)
    /\ net' = Keep(net, retDom')
    /\ UNCHANGED dom

\* qemuLookupDomainByID(conn, id)
qemuLookupDomainByID(id) == Request("lookupDomainByID", id)

qemuLookupDomainByIDReturn ==
    /\ HandleReturn("lookupDomainByID", arg)
    /\ dom' = Keep(dom, retDom')
    /\ UNCHANGED net


\* qemuDestroyDomain(domain)
qemuDestroyDomain ==
    /\ Usable(dom)
    /\ Request("destroyDomain", dom.id)

qemuDestroyDomainReturn ==
    /\ Returning("destroyDomain")
    /\ UNCHANGED callerVars
    /\ retDom' = NullDom
    /\ out' = NoOut
    /\ IF RequestFailed(xchg.rc) THEN Leave(-1) ELSE Leave(0)

\* a switch whose default branch reports SHUTOFF
RunStateMapMutant(runstate) ==
    CASE runstate = QEMUD_STATE_RUNNING -> VIR_DOMAIN_RUNNING
      [] runstate = QEMUD_STATE_PAUSED -> VIR_DOMAIN_PAUSED
      [] OTHER -> VIR_DOMAIN_SHUTOFF

\* the switch of qemuGetDomainInfo over the reply's run state; -1: the default
\* branch, which returns -1
RunStateMap(runstate) ==
    CASE runstate = QEMUD_STATE_RUNNING -> VIR_DOMAIN_RUNNING
      [] runstate = QEMUD_STATE_PAUSED -> VIR_DOMAIN_PAUSED
      [] runstate = QEMUD_STATE_STOPPED -> VIR_DOMAIN_SHUTOFF
      [] OTHER -> -1

\* qemuGetDomainInfo(domain, info)
qemuGetDomainInfo ==
    /\ Usable(dom)
    /\ Request("getDomainInfo", 0)

qemuGetDomainInfoReturn ==
    /\ Returning("getDomainInfo")
    /\ UNCHANGED callerVars
    /\ retDom' = NullDom
    /\ IF RequestFailed(xchg.rc)
       THEN /\ Leave(-1)
            /\ out' = NoOut
       ELSE IF RunStateMap(xchg.rval) = -1
       THEN /\ Leave(-1)
            /\ out' = [NoOut EXCEPT !.state = VIR_DOMAIN_NOSTATE, !.used = TRUE]
       ELSE /\ Leave(0)
            /\ out' = [NoOut EXCEPT !.state = RunStateMap(xchg.rval), !.used = TRUE]

\* a cleanup that a failed request skips
CleanupFreesMutant(rc) == IF rc < 0 THEN 0 ELSE 1

\* the number of times the cleanup of an undefine releases the handle
CleanupFrees(rc) == 1

\* the value an undefine returns; freeRc is what the release returned
UndefineResult(rc, freeRc) ==
    IF RequestFailed(rc) THEN -1 ELSE IF freeRc < 0 THEN -1 ELSE 0

\* qemuUndefine(dom)
qemuUndefine ==
    /\ Usable(dom)
    /\ Request("undefine", 0)

qemuUndefineReturn ==
    /\ Returning("undefine")
    /\ retDom' = NullDom
    /\ out' = [NoOut EXCEPT !.frees = CleanupFrees(xchg.rc)]
    /\ dom' = IF CleanupFrees(xchg.rc) = 1 THEN virFreeDomain(dom) ELSE dom
    /\ UNCHANGED net
    /\ \E freeRc \in {-1, 0} : Leave(UndefineResult(xchg.rc, freeRc))

\* qemuNetworkUndefine(network)
qemuNetworkUndefine ==
    /\ Usable(net)
    /\ Request("networkUndefine", 0)

qemuNetworkUndefineReturn ==
    /\ Returning("networkUndefine")
    /\ retDom' = NullDom
    /\ out' = [NoOut EXCEPT !.frees = CleanupFrees(xchg.rc)]
    /\ net' = IF CleanupFrees(xchg.rc) = 1 THEN virFreeDomain(net) ELSE net
    /\ UNCHANGED dom
    /\ \E freeRc \in {-1, 0} : Leave(UndefineResult(xchg.rc, freeRc))

(* ------------------------------------------------------------------ *)
(* The other entry points of the two drivers                           *)
(* ------------------------------------------------------------------ *)

\* the return of an entry point that hands back 0 and fills its out parameter
\* from the reply
StatusReturn(o, fills) ==
    /\ Returning(o)
    /\ UNCHANGED callerVars
    /\ retDom' = NullDom
    /\ IF RequestFailed(xchg.rc)
       THEN /\ Leave(-1)
            /\ out' = NoOut
       ELSE /\ Leave(0)
            /\ out' = [NoOut EXCEPT !.used = fills]

\* qemuGetVersion(conn, hvVer)
qemuGetVersion == Request("getVersion", 0)

qemuGetVersionReturn == StatusReturn("getVersion", TRUE)

\* qemuNodeGetInfo(conn, info)
qemuNodeGetInfo == Request("nodeGetInfo", 0)

qemuNodeGetInfoReturn == StatusReturn("nodeGetInfo", TRUE)

\* the return of an entry point that hands back the count the reply carries
CountReturn(o) ==
    /\ Returning(o)
    /\ UNCHANGED callerVars
    /\ retDom' = NullDom
    /\ IF RequestFailed(xchg.rc)
       THEN /\ Leave(-1)
            /\ out' = NoOut
       ELSE /\ Leave(xchg.rval)
            /\ out' = [NoOut EXCEPT !.used = TRUE]

\* qemuNumOfDomains(conn)
qemuNumOfDomains == Request("numOfDomains", 0)

qemuNumOfDomainsReturn == CountReturn("numOfDomains")

\* qemuNumOfDefinedDomains(conn)
qemuNumOfDefinedDomains == Request("numOfDefinedDomains", 0)

qemuNumOfDefinedDomainsReturn == CountReturn("numOfDefinedDomains")

\* qemuNumOfNetworks(conn)
qemuNumOfNetworks == Request("numOfNetworks", 0)

qemuNumOfNetworksReturn == CountReturn("numOfNetworks")

\* qemuNumOfDefinedNetworks(conn)
qemuNumOfDefinedNetworks == Request("numOfDefinedNetworks", 0)

qemuNumOfDefinedNetworksReturn == CountReturn("numOfDefinedNetworks")

\* a network list that clamps the count the way the domain lists do
NetListOverflowMutant(n, max) == FALSE

\* the test of the network lists on the reported count: TRUE when they give up
NetListOverflow(n, max) == n > max

\* the return of qemuListNetworks and of qemuListDefinedNetworks
NetListReturn(o) ==
    /\ Returning(o)
    /\ UNCHANGED callerVars
    /\ retDom' = NullDom
    /\ IF RequestFailed(xchg.rc)
       THEN /\ Leave(-1)
            /\ out' = NoOut
       ELSE IF NetListOverflow(xchg.rval, arg)
       THEN /\ Leave(-1)
            /\ out' = [NoOut EXCEPT !.used = TRUE]
       ELSE LET nNetworks == ListCount(xchg.rval, arg)
            IN /\ out' = [NoOut EXCEPT !.slots = 0 .. (nNetworks - 1), !.used = TRUE]
               /\ Leave(nNetworks)

\* qemuListNetworks(conn, names, maxnames)
qemuListNetworks(maxnames) == Request("listNetworks", maxnames)

qemuListNetworksReturn == NetListReturn("listNetworks")

\* qemuListDefinedNetworks(conn, names, maxnames)
qemuListDefinedNetworks(maxnames) == Request("listDefinedNetworks", maxnames)

qemuListDefinedNetworksReturn == NetListReturn("listDefinedNetworks")

\* the length test of the lookups by name
NameTooLong(len) == len > QEMUD_MAX_NAME_LEN - 1

\* the name lengths a caller may pass: the longest accepted, the shortest refused
NameLens == (QEMUD_MAX_NAME_LEN - 1) .. QEMUD_MAX_NAME_LEN

\* qemuLookupDomainByUUID(conn, uuid)
qemuLookupDomainByUUID == Request("lookupDomainByUUID", 0)

qemuLookupDomainByUUIDReturn ==
    /\ HandleReturn("lookupDomainByUUID", xchg.rval)
    /\ dom' = Keep(dom, retDom')
    /\ UNCHANGED net

\* qemuLookupDomainByName(conn, name)
qemuLookupDomainByName(len) ==
    IF NameTooLong(len)
    THEN FailLocally("lookupDomainByName", len)
    ELSE Request("lookupDomainByName", len)

qemuLookupDomainByNameReturn ==
    /\ HandleReturn("lookupDomainByName", xchg.rval)
    /\ dom' = Keep(dom, retDom')
    /\ UNCHANGED net

\* qemuNetworkLookupByUUID(conn, uuid)
qemuNetworkLookupByUUID == Request("networkLookupByUUID", 0)

qemuNetworkLookupByUUIDReturn ==
    /\ HandleReturn("networkLookupByUUID", -1)
    /\ net' = Keep(net, retDom')
    /\ UNCHANGED dom

\* qemuNetworkLookupByName(conn, name)
qemuNetworkLookupByName(len) ==
    IF NameTooLong(len)
    THEN FailLocally("networkLookupByName", len)
    ELSE Request("networkLookupByName", len)

qemuNetworkLookupByNameReturn ==
    /\ HandleReturn("networkLookupByName", -1)
    /\ net' = Keep(net, retDom')
    /\ UNCHANGED dom

\* qemuPauseDomain(domain)
qemuPauseDomain ==
    /\ Usable(dom)
    /\ Request("pauseDomain", dom.id)

qemuPauseDomainReturn == StatusReturn("pauseDomain", FALSE)

\* qemuResumeDomain(domain)
qemuResumeDomain ==
    /\ Usable(dom)
    /\ Request("resumeDomain", dom.id)

qemuResumeDomainReturn == StatusReturn("resumeDomain", FALSE)

\* qemuShutdownDomain(domain), which is qemuDestroyDomain(domain)
qemuShutdownDomain ==
    /\ Usable(dom)
    /\ Request("shutdownDomain", dom.id)

qemuShutdownDomainReturn == StatusReturn("shutdownDomain", FALSE)

\* qemuDomainCreate(dom): starts a defined domain
qemuDomainCreate ==
    /\ Usable(dom)
    /\ Request("domainCreate", 0)

qemuDomainCreateReturn ==
    /\ Returning("domainCreate")
    /\ UNCHANGED net
    /\ retDom' = NullDom
    /\ IF RequestFailed(xchg.rc)
       THEN /\ Leave(-1)
            /\ out' = NoOut
            /\ UNCHANGED dom
       ELSE /\ Leave(0)
            /\ out' = [NoOut EXCEPT !.used = TRUE]
            /\ dom' = [dom EXCEPT !.id = xchg.rval]

\* qemuDomainDumpXML(domain, flags): 0 stands for the string it returns
qemuDomainDumpXML ==
    /\ Usable(dom)
    /\ Request("domainDumpXML", 0)

qemuDomainDumpXMLReturn == StatusReturn("domainDumpXML", TRUE)

\* qemuNetworkCreate(network)
qemuNetworkCreate ==
    /\ Usable(net)
    /\ Request("networkCreate", 0)

qemuNetworkCreateReturn == StatusReturn("networkCreate", FALSE)

\* qemuNetworkDestroy(network)
qemuNetworkDestroy ==
    /\ Usable(net)
    /\ Request("networkDestroy", 0)

qemuNetworkDestroyReturn == StatusReturn("networkDestroy", FALSE)

\* qemuNetworkDumpXML(network, flags): 0 stands for the string it returns
qemuNetworkDumpXML ==
    /\ Usable(net)
    /\ Request("networkDumpXML", 0)

qemuNetworkDumpXMLReturn == StatusReturn("networkDumpXML", TRUE)

\* qemuNetworkGetBridgeName(network): 0 stands for the string it returns
qemuNetworkGetBridgeName ==
    /\ Usable(net)
    /\ Request("networkGetBridgeName", 0)

qemuNetworkGetBridgeNameReturn == StatusReturn("networkGetBridgeName", TRUE)

\* a save that reports success
UnsupportedMutant(o) == 0

\* what qemuSaveDomain and qemuRestoreDomain return
Unsupported(o) == -1

\* an entry point that is not implemented: it returns at once
ReturnUnsupported(o) ==
    /\ Enter(o, 0)
    /\ Leave(Unsupported(o))
    /\ xchg' = NoXchg
    /\ retDom' = NullDom
    /\ out' = NoOut
    /\ UNCHANGED connVars
    /\ UNCHANGED callerVars
    /\ UNCHANGED wireVars

\* qemuSaveDomain(domain, file)
qemuSaveDomain ==
    /\ Usable(dom)
    /\ ReturnUnsupported("saveDomain")

\* qemuRestoreDomain(conn, file)
qemuRestoreDomain == ReturnUnsupported("restoreDomain")

(* ------------------------------------------------------------------ *)
(* The specifications                                                  *)
(* ------------------------------------------------------------------ *)

\* the caller invokes an entry point that exchanges a packet
CallRequest ==
    \/ \E maxids \in 0 .. MaxCap : qemuListDomains(maxids)
    \/ \E maxnames \in 0 .. MaxCap : qemuListDefinedDomains(maxnames)
    \/ \E len \in XmlLens : qemuDomainCreateLinux(len)
    \/ \E len \in XmlLens : qemuDomainDefineXML(len)
    \/ \E len \in XmlLens : qemuNetworkCreateXML(len)
    \/ \E len \in XmlLens : qemuNetworkDefineXML(len)
    \/ \E id \in 0 .. MaxId : qemuLookupDomainByID(id)
    \/ qemuDestroyDomain
    \/ qemuGetDomainInfo
    \/ qemuUndefine
    \/ qemuNetworkUndefine

\* an entry point returns to the caller
ReturnRequest ==
    \/ qemuListDomainsReturn
    \/ qemuListDefinedDomainsReturn
    \/ qemuDomainCreateLinuxReturn
    \/ qemuDomainDefineXMLReturn
    \/ qemuNetworkCreateXMLReturn
    \/ qemuNetworkDefineXMLReturn
    \/ qemuLookupDomainByIDReturn
    \/ qemuDestroyDomainReturn
    \/ qemuGetDomainInfoReturn
    \/ qemuUndefineReturn
    \/ qemuNetworkUndefineReturn

\* the caller invokes one of the other entry points
CallOther ==
    \/ qemuGetVersion
    \/ qemuNodeGetInfo
    \/ qemuNumOfDomains
    \/ qemuNumOfDefinedDomains
    \/ qemuNumOfNetworks
    \/ qemuNumOfDefinedNetworks
    \/ \E maxnames \in 0 .. MaxCap : qemuListNetworks(maxnames)
    \/ \E maxnames \in 0 .. MaxCap : qemuListDefinedNetworks(maxnames)
    \/ qemuLookupDomainByUUID
    \/ \E len \in NameLens : qemuLookupDomainByName(len)
    \/ qemuNetworkLookupByUUID
    \/ \E len \in NameLens : qemuNetworkLookupByName(len)
    \/ qemuPauseDomain
    \/ qemuResumeDomain
    \/ qemuShutdownDomain
    \/ qemuDomainCreate
    \/ qemuDomainDumpXML
    \/ qemuNetworkCreate
    \/ qemuNetworkDestroy
    \/ qemuNetworkDumpXML
    \/ qemuNetworkGetBridgeName
    \/ qemuSaveDomain
    \/ qemuRestoreDomain

\* one of the other entry points returns to the caller
ReturnOther ==
    \/ qemuGetVersionReturn
    \/ qemuNodeGetInfoReturn
    \/ qemuNumOfDomainsReturn
    \/ qemuNumOfDefinedDomainsReturn
    \/ qemuNumOfNetworksReturn
    \/ qemuNumOfDefinedNetworksReturn
    \/ qemuListNetworksReturn
    \/ qemuListDefinedNetworksReturn
    \/ qemuLookupDomainByUUIDReturn
    \/ qemuLookupDomainByNameReturn
    \/ qemuNetworkLookupByUUIDReturn
    \/ qemuNetworkLookupByNameReturn
    \/ qemuPauseDomainReturn
    \/ qemuResumeDomainReturn
    \/ qemuShutdownDomainReturn
    \/ qemuDomainCreateReturn
    \/ qemuDomainDumpXMLReturn
    \/ qemuNetworkCreateReturn
    \/ qemuNetworkDestroyReturn
    \/ qemuNetworkDumpXMLReturn
    \/ qemuNetworkGetBridgeNameReturn

\* opening and closing a connection
NextOpen ==
    \/ \E name \in Names, readonly \in BOOLEAN, pwOk \in BOOLEAN :
          qemuOpen(name, readonly, pwOk)
    \/ OpenSocket
    \/ OpenConnect
    \/ OpenForkServer
    \/ \E driver \in {"domain", "network"} : qemuClose(driver)

SpecOpen == Init /\ [][NextOpen]_vars

\* the open and close entries of the domain driver and of the network driver
NextDrivers ==
    \/ \E name \in Names, readonly \in BOOLEAN, pwOk \in BOOLEAN :
          qemuOpen(name, readonly, pwOk)
    \/ \E name \in Names, readonly \in BOOLEAN, pwOk \in BOOLEAN, isRoot \in BOOLEAN :
          qemuNetworkOpen(name, readonly, pwOk, isRoot)
    \/ OpenSocket
    \/ OpenConnect
    \/ OpenForkServer
    \/ \E driver \in {"domain", "network"} : qemuClose(driver)

SpecDrivers == Init /\ [][NextDrivers]_vars

\* requests on an open connection, whatever the daemon and the socket do
Next ==
    \/ CallRequest
    \/ CallOther
    \/ WriteRequest(TRUE)
    \/ DaemonMisbehave
    \/ ReadHeader(TRUE)
    \/ ReadBody(TRUE)
    \/ ReturnRequest
    \/ ReturnOther

\* the caller holds the handles of a running domain and of a network
Spec ==
    /\ Connected(MaxRequests, [virGetDomain EXCEPT !.id = 0], virGetDomain)
    /\ [][Next]_vars

\* requests on an open connection to a daemon that follows the protocol
NextProtocol ==
    \/ CallRequest
    \/ WriteRequest(FALSE)
    \/ DaemonReply
    \/ ReadHeader(FALSE)
    \/ ReadBody(FALSE)
    \/ ReturnRequest

SpecProtocol ==
    /\ Connected(MaxProtocolRequests, NullDom, NullDom)
    /\ [][NextProtocol]_vars

\* qemuOpenClientUNIX as a function of its autostart parameter
NextClientUNIX ==
    \/ \E autostart \in BOOLEAN : qemuOpenClientUNIX(autostart)
    \/ OpenSocket
    \/ OpenConnect
    \/ OpenForkServer
    \/ \E driver \in {"domain", "network"} : qemuClose(driver)

SpecClientUNIX == Init /\ [][NextClientUNIX]_vars

\* requests of the three sizes a request has
CallLive ==
    \/ qemuGetVersion
    \/ qemuDestroyDomain
    \/ \E len \in XmlLens : qemuDomainCreateLinux(len)

ReturnLive ==
    \/ qemuGetVersionReturn
    \/ qemuDestroyDomainReturn
    \/ qemuDomainCreateLinuxReturn

NextLive ==
    \/ CallLive
    \/ WriteRequest(TRUE)
    \/ DaemonMisbehave
    \/ ReadHeader(TRUE)
    \/ ReadBody(TRUE)
    \/ ReturnLive

\* requests on an open connection where no call blocks for ever without a
\* cause: a write() transfers something or fails, the daemon answers every
\* request, delivering what it declared or closing the socket, a read()
\* returns once there is something to read or the peer has closed, and the
\* entry point returns once qemuProcessRequest has
SpecLive ==
    /\ Connected(MaxLiveRequests, [virGetDomain EXCEPT !.id = 0], virGetDomain)
    /\ [][NextLive]_vars
    /\ WF_vars(WriteRequest(TRUE))
    /\ WF_vars(DaemonMisbehave)
    /\ WF_vars(ReadHeader(FALSE))
    /\ WF_vars(ReadBody(FALSE))
    /\ WF_vars(ReturnLive)

(* ------------------------------------------------------------------ *)
(* A second calling thread                                             *)
(* ------------------------------------------------------------------ *)

\* what the second thread's steps leave alone
OtherFrame ==
    /\ UNCHANGED <<pc, op, calls, arg, ret, retDom, out, xchg, dom, net>>
    /\ UNCHANGED connVars
    /\ UNCHANGED <<peerClosed, flight, daemon>>

\* the second thread enters qemuProcessRequest with a request that has a body
\* of one unit: nothing in the function waits for the first thread
OtherCall ==
    /\ other.pc = "idle"
    /\ other.done < MaxRequests
    /\ other' = [NoOther EXCEPT !.pc = "write", !.done = other.done + 1,
                                !.outLeft = RequestLength(1), !.inLeft = HeaderSize]
    /\ UNCHANGED inbuf
    /\ OtherFrame

\* the second thread's write() in the write loop
OtherWrite ==
    /\ other.pc = "write"
    /\ \E got \in 1 .. other.outLeft :
          other' = [other EXCEPT !.outLeft = @ - got, !.wrote = @ + got,
                                 !.owed = WriteDone(other.outLeft, got),
                                 !.pc = IF WriteDone(other.outLeft, got)
                                        THEN "hdr" ELSE "write"]
    /\ UNCHANGED inbuf
    /\ OtherFrame

\* the daemon answers the second thread's request, in one whole packet with a
\* body of one unit
OtherDaemonReply ==
    /\ other.owed
    /\ other' = [other EXCEPT !.owed = FALSE]
    /\ inbuf' = inbuf \o Units(HeaderSize + 1, "o")
    /\ OtherFrame

\* the second thread's read() in the header loop and in the body loop: it takes
\* what is first in the socket, whichever request that answers
OtherRead ==
    /\ other.pc \in {"hdr", "body"}
    /\ OtherFrame
    /\ \E done \in 1 .. Min(other.inLeft, Len(inbuf)) :
          LET units == SubSeq(inbuf, 1, done)
              own == other.own /\ AllOf(units, "o")
              o1 == [other EXCEPT !.inLeft = @ - done, !.own = own]
          IN /\ inbuf' = SubSeq(inbuf, done + 1, Len(inbuf))
             /\ IF o1.inLeft > 0
                THEN other' = o1
                ELSE IF other.pc = "hdr"
                THEN \E n \in (IF own THEN {1} ELSE HdrSizes) :
                        other' = IF HeaderBogus(n)
                                 THEN [o1 EXCEPT !.pc = "return", !.rc = -1]
                                 ELSE IF n = 0
                                 THEN [o1 EXCEPT !.pc = "return"]
                                 ELSE [o1 EXCEPT !.pc = "body", !.inLeft = n]
                ELSE \E rc \in (IF own THEN {0} ELSE {-1, 0}) :
                        other' = [o1 EXCEPT !.pc = "return", !.rc = rc]

\* the second thread's qemuProcessRequest returns to its entry point, and that
\* to its caller
OtherReturn ==
    /\ other.pc = "return"
    /\ other' = [other EXCEPT !.pc = "idle"]
    /\ UNCHANGED inbuf
    /\ OtherFrame

\* two threads call entry points on one connection to a daemon that follows the
\* protocol
NextTwoCallers ==
    \/ CallLive
    \/ WriteRequest(FALSE)
    \/ DaemonReply
    \/ ReadHeader(FALSE)
    \/ ReadBody(FALSE)
    \/ ReturnLive
    \/ OtherCall
    \/ OtherWrite
    \/ OtherDaemonReply
    \/ OtherRead
    \/ OtherReturn

SpecTwoCallers ==
    /\ Connected(MaxRequests, [virGetDomain EXCEPT !.id = 0], virGetDomain)
    /\ [][NextTwoCallers]_vars

(* ------------------------------------------------------------------ *)
(* Properties                                                          *)
(* ------------------------------------------------------------------ *)

\* an entry point has returned to the caller
Returned(o) == pc = "idle" /\ op = o

\* qemuProcessRequest has returned to the entry point, or the entry point has
\* returned too
Over == pc \in {"return", "idle"}

\* an open went into qemuOpenClientUNIX with autostart, made connect attempts,
\* and all of them failed
NeverConnectable ==
    /\ Returned("open")
    /\ open.autostart
    /\ open.connects >= 1
    /\ open.connFails = open.connects

C2_OversizeRejected ==
    (xchg.gotHdr /\ xchg.rsize > MaxData)
       => (Over /\ xchg.rc = -1 /\ xchg.bodyReads = 0)

C2_Witness ==
    /\ pc = "return"
    /\ xchg.gotHdr
    /\ xchg.rsize > MaxData
    /\ xchg.fail = "malformed"
    /\ xchg.hdrReads > 0

\* C3: a reply whose header type differs from the request's type makes
\* qemuProcessRequest return -1, never 0; and when the whole reply was received
\* it returns through the type test, with qemuPacketError called on the reply,
\* whatever the body holds and however long it is.
C3_TypeMismatchFails ==
    (Over /\ xchg.gotHdr /\ xchg.rtype # xchg.type)
       => /\ xchg.rc = -1
          /\ (xchg.fail \notin {"io", "closed", "malformed"})
                => /\ xchg.fail = "mismatch"
                   /\ xchg.err = qemuPacketError(FALSE, xchg.rtype, xchg.rval)

C3_Witness ==
    /\ pc = "return"
    /\ xchg.gotHdr
    /\ xchg.rtype = "QEMUD_PKT_FAILURE"
    /\ xchg.rsize = 0
    /\ xchg.fail = "mismatch"
    /\ xchg.rc = -1

\* C4: once a read has returned zero bytes, in the header or in the body, the
\* exchange is over and has failed, and the entry point returns its error value
\* (-1 or NULL) having used no field of the reply.
C4_PeerCloseFails ==
    xchg.zeroRead
       => /\ Over
          /\ xchg.rc = -1
          /\ pc = "idle" => (ret = -1 /\ ~retDom.valid /\ ~out.used /\ out.slots = {})

C4_Witness ==
    /\ Returned("lookupDomainByID")
    /\ xchg.zeroRead
    /\ xchg.gotHdr
    /\ xchg.rtype = xchg.type
    /\ ret = -1

\* C5: domain create, domain define, network create and network define, given a
\* document longer than QEMUD_MAX_XML_LEN-1, have returned NULL without calling
\* qemuProcessRequest and without writing a unit to the socket.
C5_TooLargeLocal ==
    (op \in XmlOps /\ arg > QEMUD_MAX_XML_LEN - 1)
       => /\ pc = "idle"
          /\ ~xchg.called
          /\ xchg.wrote = 0
          /\ ret = -1
          /\ ~retDom.valid

C5_Witness ==
    /\ Returned("networkCreateXML")
    /\ arg = QEMUD_MAX_XML_LEN
    /\ ~retDom.valid

\* C6: list-running-domains and list-defined-domains, with capacity c and a
\* reply reporting n entries, return min(n, c) on success and write exactly the
\* slots 0 .. min(n, c)-1, none of them at or beyond c.
C6_ListTruncates ==
    \A o \in ListOps :
       (Returned(o) /\ xchg.rc = 0)
          => /\ ret = Min(xchg.rval, arg)
             /\ out.slots = 0 .. (Min(xchg.rval, arg) - 1)
             /\ \A i \in out.slots : i < arg

C6_Witness ==
    /\ Returned("listDefinedDomains")
    /\ xchg.rc = 0
    /\ xchg.rval > arg
    /\ arg > 0
    /\ ret = arg

\* the last requests the daemon served, oldest first, when there are n of them
LastServed(n) ==
    IF Len(daemon.log) < n THEN <<>>
    ELSE SubSeq(daemon.log, Len(daemon.log) - n + 1, Len(daemon.log))

\* the daemon's last n requests were: a create it accepted, then (n > 1) a
\* destroy of the domain it created, then (n > 2) a lookup of that domain's id
CreateDestroyLookup(n) ==
    LET l == LastServed(n)
    IN /\ Len(l) = n
       /\ l[1].type = "QEMUD_PKT_DOMAIN_CREATE" /\ l[1].ok
       /\ n > 1 => (l[2].type = "QEMUD_PKT_DOMAIN_DESTROY" /\ l[2].id = l[1].id)
       /\ n > 2 => (l[3].type = "QEMUD_PKT_DOMAIN_LOOKUP_BY_ID" /\ l[3].id = l[1].id)

\* C7: against a daemon that follows the protocol, a create the daemon accepted
\* returns a handle whose id is the new domain's id, which is >= 0; a destroy of
\* that domain right after returns 0; and a lookup of the same id right after
\* that returns NULL.
C7_CreateDestroyLookup ==
    /\ (Returned("domainCreateLinux") /\ xchg.called /\ CreateDestroyLookup(1))
          => (retDom.valid /\ retDom.id >= 0 /\ retDom.id = LastServed(1)[1].id)
    /\ (Returned("destroyDomain") /\ CreateDestroyLookup(2))
          => (ret = 0 /\ arg = LastServed(2)[1].id)
    /\ (Returned("lookupDomainByID") /\ CreateDestroyLookup(3))
          => (ret = -1 /\ ~retDom.valid /\ arg = LastServed(3)[1].id)

C7_Witness ==
    /\ Returned("lookupDomainByID")
    /\ CreateDestroyLookup(3)
    /\ LastServed(3)[2].ok
    /\ ~LastServed(3)[3].ok
    /\ dom.valid
    /\ dom.id = arg
    /\ ~retDom.valid

\* C8: when domain undefine or network undefine has returned, it has released
\* the handle it was given exactly once, whether qemuProcessRequest succeeded
\* or failed, and it has returned -1 when qemuProcessRequest failed; no handle
\* is ever released twice.
C8_UndefineReleasesOnce ==
    /\ Returned("undefine")
          => (out.frees = 1 /\ dom.freed = 1 /\ (xchg.rc < 0 => ret = -1))
    /\ Returned("networkUndefine")
          => (out.frees = 1 /\ net.freed = 1 /\ (xchg.rc < 0 => ret = -1))
    /\ dom.freed <= 1
    /\ net.freed <= 1

C8_Witness ==
    /\ Returned("networkUndefine")
    /\ xchg.rc = -1
    /\ net.freed = 1
    /\ ret = -1

\* the last open connected a socket
OpenConnected == open.fd # -1 /\ open.connFails < open.connects

\* C9: no descriptor is closed twice; when a close has returned, it returned 0,
\* qemud_fd is -1, it closed the descriptor the connection held (closed once by
\* now) and nothing when the connection held none.
C9_CloseIdempotent ==
    /\ \A s \in DOMAIN socks : socks[s] <= 1
    /\ Returned("close")
          => /\ ret = 0
             /\ qemud_fd = -1
             /\ out.closed = (IF arg # -1 THEN 1 ELSE 0)
             /\ arg # -1 => socks[arg] = 1
             /\ OpenConnected => socks[open.fd] = 1

C9_Witness ==
    /\ Returned("close")
    /\ arg = -1
    /\ OpenConnected
    /\ socks[open.fd] = 1
    /\ out.closed = 0
    /\ ret = 0

\* C10: when get-info has returned after a successful exchange, run state
\* running gave RUNNING, paused gave PAUSED and stopped gave SHUTOFF, each with
\* return value 0, and any other run state gave return value -1.
C10_RunStateMapping ==
    (Returned("getDomainInfo") /\ xchg.rc = 0)
       => /\ xchg.rval = QEMUD_STATE_RUNNING
                => (ret = 0 /\ out.state = VIR_DOMAIN_RUNNING)
          /\ xchg.rval = QEMUD_STATE_PAUSED
                => (ret = 0 /\ out.state = VIR_DOMAIN_PAUSED)
          /\ xchg.rval = QEMUD_STATE_STOPPED
                => (ret = 0 /\ out.state = VIR_DOMAIN_SHUTOFF)
          /\ xchg.rval \notin {QEMUD_STATE_RUNNING, QEMUD_STATE_PAUSED,
                               QEMUD_STATE_STOPPED}
                => ret = -1

C10_Witness ==
    /\ Returned("getDomainInfo")
    /\ xchg.rc = 0
    /\ xchg.rval \notin {QEMUD_STATE_RUNNING, QEMUD_STATE_PAUSED, QEMUD_STATE_STOPPED}
    /\ ret = -1

\* C11: an entry point writes at most the units of one request packet to the
\* socket per call, whether the exchange succeeds or fails; a call that
\* succeeded wrote exactly one packet, and save and restore wrote nothing.
C11_OneRequestPerCall ==
    /\ xchg.wrote <= HeaderSize + ReqSize(op)
    /\ xchg.called => op \in ExchangeOps
    /\ (pc = "idle" /\ xchg.called /\ xchg.rc = 0)
          => xchg.wrote = HeaderSize + ReqSize(op)
    /\ op \notin ExchangeOps => xchg.wrote = 0

C11_Witness ==
    /\ Returned("domainCreate")
    /\ xchg.rc = -1
    /\ xchg.fail = "closed"
    /\ xchg.wrote = HeaderSize + ReqSize(op)
    /\ ret = -1

\* the last open was given a name whose URI has a server component
OpenNamedServer ==
    /\ Returned("open")
    /\ qemuOpenAccepts(open.name)
    /\ xmlParseURI(open.name).server # ""

\* C12: an open of a URI with a server component has returned -1 with qemud_fd
\* equal to -1, having made no socket() call, no connect() call and no
\* qemuForkServer() call.
C12_RemoteRejected ==
    OpenNamedServer
       => /\ ret = -1
          /\ qemud_fd = -1
          /\ open.sockets = 0 /\ open.sockFails = 0
          /\ open.connects = 0
          /\ open.spawns = 0

C12_Witness ==
    /\ OpenNamedServer
    /\ open.name = "qemu://host/system"
    /\ open.path = "none"
    /\ ret = -1

\* C13 as stated: an open of a qemu URI without server whose path is neither
\* /system nor /session has failed without a connect attempt and without a
\* daemon spawn.
C13_OtherPathRejected ==
    (/\ Returned("open")
     /\ qemuOpenAccepts(open.name)
     /\ xmlParseURI(open.name).server = ""
     /\ xmlParseURI(open.name).path \notin {"/system", "/session"})
       => (ret = -1 /\ open.connects = 0 /\ open.spawns = 0)

\* the entry points that return a handle
HandleOps == LookupOps \cup XmlOps

\* C14: a lookup, create or define whose exchange did not succeed (or never
\* took place) has returned NULL and built no handle; a handle is returned only
\* by these entry points and only after qemuProcessRequest returned 0.
C14_HandleOnlyOnSuccess ==
    /\ \A o \in HandleOps :
          (Returned(o) /\ (~xchg.called \/ xchg.rc # 0))
             => (~retDom.valid /\ ~out.used /\ ret = -1)
    /\ retDom.valid => (op \in HandleOps /\ xchg.called /\ xchg.rc = 0)

C14_Witness ==
    /\ Returned("networkLookupByUUID")
    /\ xchg.called
    /\ xchg.fail = "mismatch"
    /\ xchg.rtype = "QEMUD_PKT_FAILURE"
    /\ ~retDom.valid

\* C15 as stated: an exchange that failed at the type test has raised an error:
\* with the daemon's code when the reply is a failure packet, an internal
\* 'Incorrect reply type' error otherwise.
C15_MismatchRaises ==
    (Over /\ xchg.fail = "mismatch")
       => /\ xchg.err.kind # "none"
          /\ xchg.rtype = "QEMUD_PKT_FAILURE"
                => xchg.err = [kind |-> "failure", code |-> xchg.rval]
          /\ xchg.rtype # "QEMUD_PKT_FAILURE"
                => xchg.err = [kind |-> "Incorrect reply type",
                               code |-> VIR_ERR_INTERNAL_ERROR]

\* C16 as stated: the handle a define returns has id -1, and after a successful
\* destroy the id of the handle that was destroyed is -1.
C16_IdMinusOneWhenNotRunning ==
    /\ (Returned("domainDefineXML") /\ retDom.valid) => retDom.id = -1
    /\ (Returned("destroyDomain") /\ xchg.rc = 0) => dom.id = -1

\* C17 as stated: the network lists truncate: when the reply reports more
\* entries than the capacity, they return the capacity and fill that many slots.
C17_NetListsTruncate ==
    \A o \in NetListOps :
       (Returned(o) /\ xchg.rc = 0 /\ xchg.rval > arg)
          => (ret = arg /\ out.slots = 0 .. (arg - 1))

\* C17 as amended: list-networks and list-defined-networks return -1 and fill
\* no slot when the reply reports more entries than the capacity; otherwise
\* they return the reported count n and fill the slots 0 .. n-1.
C17_NetListsRefuseOverflow ==
    \A o \in NetListOps :
       (Returned(o) /\ xchg.rc = 0)
          => IF xchg.rval > arg
             THEN ret = -1 /\ out.slots = {}
             ELSE ret = xchg.rval /\ out.slots = 0 .. (xchg.rval - 1)

C17_Witness ==
    /\ Returned("listNetworks")
    /\ xchg.rc = 0
    /\ xchg.rval > arg
    /\ ret = -1
    /\ out.slots = {}

\* C18 as stated: list-defined-domains returns -1 and fills no slot when the
\* reply reports more entries than the capacity.
C18_DefinedDomainsRefuseOverflow ==
    (Returned("listDefinedDomains") /\ xchg.rc = 0 /\ xchg.rval > arg)
       => (ret = -1 /\ out.slots = {})

\* C18 as amended: when the reply reports more entries than the capacity, only
\* list-networks and list-defined-networks return -1 and fill no slot; both
\* list-running-domains and list-defined-domains return the capacity and fill
\* that many slots.
C18_OnlyNetListsRefuse ==
    \A o \in ListOps \cup NetListOps :
       (Returned(o) /\ xchg.rc = 0 /\ xchg.rval > arg)
          => IF o \in NetListOps
             THEN ret = -1 /\ out.slots = {}
             ELSE ret = arg /\ out.slots = 0 .. (arg - 1)

C18_Witness ==
    /\ Returned("listDefinedDomains")
    /\ xchg.rc = 0
    /\ xchg.rval > arg
    /\ out.slots # {}
    /\ Cardinality(out.slots) = arg

\* C19: no step of an entry point other than open and close changes qemud_fd,
\* closes a socket, makes a socket or spawns the daemon, however the exchange
\* ends.
C19_NoReconnect ==
    [][op' \in ExchangeOps \cup UnsupportedOps
          => (qemud_fd' = qemud_fd /\ socks' = socks /\ open' = open)]_vars

C19_Witness ==
    /\ pc = "idle"
    /\ op \in ExchangeOps
    /\ xchg.fail = "closed"
    /\ peerClosed
    /\ qemud_fd = 1
    /\ socks[qemud_fd] = 0
    /\ open.spawns = 0

\* C20: save and restore have returned -1 without calling qemuProcessRequest
\* and without writing a unit to the socket, and they never leave the caller
\* waiting on the socket.
C20_SaveRestoreUnsupported ==
    op \in UnsupportedOps
       => (pc = "idle" /\ ret = -1 /\ ~xchg.called /\ xchg.wrote = 0)

C20_Witness ==
    /\ Returned("saveDomain")
    /\ ret = -1
    /\ ~xchg.called
    /\ qemud_fd # -1


\* C21: within one exchange the whole request packet, header and declared
\* body, is written before the first read of the reply, over as many write()
\* calls as it takes; and when a write() fails the exchange fails at once, no
\* read having been made.
C21_WriteBeforeRead ==
    /\ (pc \in {"hdr", "body"})
          => (xchg.outLeft = 0 /\ xchg.wrote = HeaderSize + xchg.dataSize)
    /\ (pc \in {"hdr", "body", "return"}
          /\ (xchg.hdrReads > 0 \/ xchg.bodyReads > 0 \/ xchg.gotHdr))
          => xchg.wrote = HeaderSize + xchg.dataSize
    /\ (pc = "return" /\ xchg.wrote < HeaderSize + xchg.dataSize)
          => /\ xchg.rc = -1
             /\ xchg.fail = "io"
             /\ xchg.hdrReads = 0
             /\ xchg.bodyReads = 0
             /\ ~xchg.gotHdr

\* a write() fails after an earlier write() sent a part of the packet
C21_Witness ==
    /\ pc = "return"
    /\ xchg.wrote > 0
    /\ xchg.wrote < HeaderSize + xchg.dataSize
    /\ xchg.rc = -1
    /\ xchg.hdrReads = 0


\* an open went into qemuOpenClientUNIX and is back from it
ClientReturned == Returned("open") /\ open.sockets + open.sockFails > 0

\* C22 as stated: without autostart a failed connect makes open fail after one
\* connect attempt and no spawn; a spawn only happens after a failed connect,
\* with autostart and fewer than 3 earlier spawns; and every spawn is followed
\* by one more connect attempt, at most 4 in all.
C22_EverySpawnReconnects ==
    /\ (op = "open" /\ ~open.autostart /\ open.connFails > 0)
          => (ClientReturned /\ ret = -1 /\ open.connects = 1 /\ open.spawns = 0)
    /\ open.spawns <= open.connFails
    /\ open.spawns > 0 => open.autostart
    /\ open.spawns <= MaxTrials
    /\ open.connects <= MaxTrials + 1
    /\ (ClientReturned /\ open.trials > 0) => open.connects = open.trials + 1

\* C22 as amended: the same, but a spawn that reported success is followed by
\* one more socket() call, and by one more connect attempt only when that
\* socket() call succeeded.
C22_SpawnThenSocket ==
    /\ (op = "open" /\ ~open.autostart /\ open.connFails > 0)
          => (ClientReturned /\ ret = -1 /\ open.connects = 1 /\ open.spawns = 0)
    /\ open.spawns <= open.connFails
    /\ open.spawns > 0 => open.autostart
    /\ open.spawns <= MaxTrials
    /\ open.connects <= MaxTrials + 1
    /\ ClientReturned => open.sockets + open.sockFails = open.trials + 1
    /\ (ClientReturned /\ open.sockFails = 0) => open.connects = open.trials + 1
    /\ open.connects = open.sockets - (IF pc = "connect" THEN 1 ELSE 0)

\* without autostart, the one connect attempt failed and open is back
C22_Witness ==
    /\ ClientReturned
    /\ ~open.autostart
    /\ open.connFails = 1
    /\ open.spawns = 0
    /\ ret = -1


\* C23 as stated: when the exec of the daemon binary fails, the process that
\* attempted it exits with a non-zero status, and qemuForkServer still returns
\* success to its caller, which goes on to its next connect attempt.
C23_ExecFailureExitsNonZero ==
    (open.child = "execFailed")
       => /\ open.execExit # 0
          /\ open.trials > 0
          /\ open.spawnFails = 0


\* qemuProcessRequest is running
Exchanging == pc \in {"write", "hdr", "body"}

\* C24 as stated: every exchange eventually returns, given that each write()
\* transfers at least one unit or fails and that the daemon delivers what it
\* declared or closes the connection; and it returns success only after the
\* whole header and the whole declared body were received.
C24_ExchangeReturns ==
    /\ [](pc = "return" /\ xchg.rc = 0
            => (xchg.gotHdr /\ xchg.inGot = HeaderSize + xchg.rsize))
    /\ (Exchanging ~> Over)


\* the second thread is between the first unit it wrote and its return
OtherExchanging == other.pc \in {"write", "hdr", "body"} /\ other.wrote > 0

\* C25 as stated: the exchanges of two callers on one connection exclude each
\* other: between the first unit one caller wrote and the last unit of its
\* reply it read, the other neither writes nor reads, so that a caller whose
\* exchange succeeds has read the reply to its own request.
C25_ExchangesExclude ==
    /\ ~(Exchanging /\ xchg.wrote > 0 /\ OtherExchanging)
    /\ (pc = "return" /\ xchg.rc = 0) => xchg.rtype = xchg.type
    /\ (other.pc = "return" /\ other.rc = 0) => other.own


\* C26 as stated: whenever qemuNetworkOpen returns success the connection holds
\* an open daemon socket; and when the connection held an open socket on
\* entry, qemuNetworkOpen has not put another descriptor in its place.
C26_NetworkOpenKeepsSocket ==
    /\ (Returned("networkOpen") /\ ret = 0) => qemud_fd # -1
    /\ (Returned("networkOpen") /\ open.fdOnEntry # -1) => qemud_fd = open.fdOnEntry

\* the sockets that were created and have not been closed
OpenSockets == {sk \in DOMAIN socks : socks[sk] = 0}

\* C27 as stated: no descriptor leaks: between calls, after any sequence of
\* opens of the two drivers and closes, one socket is open when qemud_fd is
\* not -1 and none when it is -1; a failed connect attempt has closed its
\* socket; and an open of a connection that held no descriptor fails exactly
\* when it leaves qemud_fd at -1.
C27_NoSocketLeak ==
    /\ pc = "idle"
          => Cardinality(OpenSockets) = (IF qemud_fd # -1 THEN 1 ELSE 0)
    /\ \A sk \in DOMAIN socks : socks[sk] <= 1
    /\ (Returned("open") /\ open.fdOnEntry = -1) => (ret = -1 <=> qemud_fd = -1)


\* C28 as stated: framing stays in step across failures: once an exchange has
\* failed on an oversize header, on a type mismatch or on a failure reply,
\* and the daemon keeps the connection open, nothing of that reply is left in
\* the socket, so that the header read of the next request starts at the first
\* unit of the reply to that request.
C28_FramingInSync ==
    (Over /\ xchg.fail \in {"malformed", "mismatch"} /\ ~peerClosed) => inbuf = <<>>


\* C29 as stated: whenever an exchange returns success, every field of the
\* reply the entry point then reads was received from the daemon: a reply of
\* the right type whose declared body is shorter than the fields read, an
\* empty body included, is not taken for a success.
C29_FieldsReceived ==
    (pc = "return" /\ xchg.rc = 0) => xchg.rsize >= FieldsRead(op)


\* C30: when the daemon spawn reports failure (the daemon binary is not found),
\* open fails at once: the socket of the failed connect attempt is closed
\* already, there is no sleep and no further socket or connect attempt, and
\* qemud_fd is as qemuOpen had set it, -1.
C30_SpawnFailureEndsOpen ==
    (op = "open" /\ open.spawnFails > 0)
       => /\ pc = "idle"
          /\ ret = -1
          /\ qemud_fd = -1
          /\ open.spawnFails = 1
          /\ socks[open.fd] = 1
          /\ open.trials = open.spawns - 1
          /\ open.sockets = open.spawns
          /\ open.connects = open.spawns
          /\ open.connFails = open.connects

\* the second spawn attempt reports failure, after a first that went through
C30_Witness ==
    /\ Returned("open")
    /\ open.spawnFails = 1
    /\ open.spawns = 2
    /\ open.connects = 2
    /\ ret = -1

====
